---------------------------- MODULE Spec2Model ----------------------------
(***************************************************************************)
(* read_case_1 of DeepRetail/data/casereaders.py: the chunked reader that  *)
(* cuts the records of a sales file into date windows of 14 (W) or 59 (M)  *)
(* days, pivots and resamples each window to the frequency and concats the *)
(* window matrices column-wise into out_df.                                *)
(*                                                                         *)
(* Dates are day numbers: day 0 is Thursday 2015-01-01, NaT is -1.  A row  *)
(* of df is [unique_id, date, y] (DC and Shop are dropped before use).  A  *)
(* matrix is a sequence of columns [period, cells]; cells maps the ids of  *)
(* the column's rows that hold a value to it; an id outside DOMAIN cells   *)
(* is NaN in that column.                                                  *)
(***************************************************************************)
EXTENDS Integers, Sequences, FiniteSets, TLC

\* ---- bounds of the inputs ----
\* the dates of the input reach Slack days past two chunk sizes
Slack == 0
\* rows of the input file
MaxRows == 4
\* rows of the input file in the runs checked for termination
LiveRows == 2

Ids == {"a", "b"}
Ys == {1}
Frequencies == {"W", "M", "D"}

\* ---- program constants ----
ChunkW == 14
ChunkM == 59
NaT == -1

\* last day of each month of 2015 and 2016, as day numbers
MonthEnds ==
  <<30, 58, 89, 119, 150, 180, 211, 242, 272, 303, 333, 364,
    395, 424, 455, 485, 516, 546, 577, 608, 638, 669, 699, 730>>

VARIABLES
  pc,              \* position in read_case_1
  frequency,       \* argument
  temporary_save,  \* argument
  item_category,   \* whether Item kept its category dtype through pd.concat(tp)
  df,              \* the rows read from read_filepath
  chunk_size,
  start_date,
  temp_date,
  out_df,          \* the running matrix
  file,            \* content of write_filepath: <<>> when never written, else <<matrix>>
  writes,          \* number of completed out_df.to_csv calls
  raised,          \* the exception that ended the call: "none", "frequency" (the
                   \* ValueError of line 112), "pivot" or "to_csv"
  filters          \* history: the (start, end) of every date filter applied

vars == <<pc, frequency, temporary_save, item_category, df, chunk_size,
          start_date, temp_date, out_df, file, writes, raised, filters>>

\* ---- dates ----
IsNaT(d) == d = NaT

\* Timestamp + timedelta(days = n); NaT stays NaT
AddDays(d, n) == IF IsNaT(d) THEN NaT ELSE d + n

\* Timestamp < Timestamp; every comparison with NaT is False
DateLt(a, b) == ~IsNaT(a) /\ ~IsNaT(b) /\ a < b

RECURSIVE SeqMin(_, _)
SeqMin(s, i) ==
  IF i > Len(s) THEN NaT
  ELSE LET m == SeqMin(s, i + 1)
       IN IF IsNaT(m) \/ s[i].date < m THEN s[i].date ELSE m

RECURSIVE SeqMax(_, _)
SeqMax(s, i) ==
  IF i > Len(s) THEN NaT
  ELSE LET m == SeqMax(s, i + 1)
       IN IF IsNaT(m) \/ s[i].date > m THEN s[i].date ELSE m

\* df["date"].min() and df["date"].max(): NaT on an empty frame
MinDate(rows) == SeqMin(rows, 1)
MaxDate(rows) == SeqMax(rows, 1)

\* ---- the frequency ----
\* a slip: the else branch falls back to the weekly chunk instead of raising
ChunkSizeOf_Default(f) == IF f = "M" THEN ChunkM ELSE ChunkW

\* the chunk size of a frequency; 0 stands for the ValueError of the else branch
ChunkSizeOf(f) ==
  IF f = "W" THEN ChunkW ELSE IF f = "M" THEN ChunkM ELSE 0

\* week-ending Sunday of a day ('W' is W-SUN, bins closed and labelled right);
\* (d + 3) % 7 is the weekday of d with Monday = 0
WeekEnd(d) == d + (6 - ((d + 3) % 7))

\* month end of a day ('M', bins closed and labelled right)
MonthEnd(d) ==
  MonthEnds[CHOOSE i \in DOMAIN MonthEnds :
              /\ MonthEnds[i] >= d
              /\ \A j \in DOMAIN MonthEnds : MonthEnds[j] >= d => i <= j]

\* the label of the resample bin a day falls into
PeriodLabel(f, d) == IF f = "M" THEN MonthEnd(d) ELSE WeekEnd(d)

\* the bin labels from the bin of the first date to the bin of the last, every bin
\* between them included: a week end every 7 days, or the month ends
PeriodRange(f, first, last) ==
  IF f = "M" THEN SelectSeq(MonthEnds, LAMBDA e : first <= e /\ e <= last)
  ELSE [k \in 1..((last - first) \div 7 + 1) |-> first + 7 * (k - 1)]

\* ---- the date filter ----
\* df[(df["date"] < hi) & (df["date"] > lo)]
Selected(r, lo, hi) == DateLt(r.date, hi) /\ DateLt(lo, r.date)

FilterRows(rows, lo, hi) == SelectSeq(rows, LAMBDA r : Selected(r, lo, hi))

\* ---- pivot_table and resample ----
RowIds(rows) == {rows[i].unique_id : i \in DOMAIN rows}
RowDates(rows) == {rows[i].date : i \in DOMAIN rows}

RECURSIVE SumY(_, _)
SumY(rows, i) == IF i > Len(rows) THEN 0 ELSE rows[i].y + SumY(rows, i + 1)

\* a slip: aggfunc="max", a later record of the group does not add to an earlier one
GroupSum_Max(rows, u, d) ==
  IF \E i \in DOMAIN rows : rows[i].unique_id = u /\ rows[i].date = d
  THEN CHOOSE v \in Ys :
         /\ \E i \in DOMAIN rows :
              rows[i].unique_id = u /\ rows[i].date = d /\ rows[i].y = v
         /\ \A i \in DOMAIN rows :
              (rows[i].unique_id = u /\ rows[i].date = d) => rows[i].y <= v
  ELSE 0

\* aggfunc="sum" of the y of one (unique_id, date) group
GroupSum(rows, u, d) ==
  SumY(SelectSeq(rows, LAMBDA r : r.unique_id = u /\ r.date = d), 1)

\* the row index of pivot_table: with a categorical unique_id (observed=False) every
\* category of the column, that is every id of the whole file; else the ids of the rows
PivotIndex(rows, categories, categorical) ==
  IF rows = <<>> THEN {}
  ELSE IF categorical THEN categories ELSE RowIds(rows)

\* the (id, date) groups that hold a value in the daily table: the groups with rows,
\* and with a categorical unique_id the unobserved groups too (their sum is 0)
PivotCells(rows, categories, categorical) ==
  LET idx == PivotIndex(rows, categories, categorical)
      have == {<<u, d>> \in idx \X RowDates(rows) :
                 categorical \/ \E i \in DOMAIN rows :
                                  rows[i].unique_id = u /\ rows[i].date = d}
  IN [g \in have |-> GroupSum(rows, g[1], g[2])]

RECURSIVE SumCells(_, _)
SumCells(cells, groups) ==
  IF groups = {} THEN 0
  ELSE LET g == CHOOSE x \in groups : TRUE
       IN cells[g] + SumCells(cells, groups \ {g})

\* the value resample(...).sum() puts in the cell of row u and bin p: the sum of the
\* daily values of the bin that are not NaN, 0 when there is none (min_count=0)
ResampleCell(f, cells, u, p) ==
  SumCells(cells, {g \in DOMAIN cells : g[1] = u /\ PeriodLabel(f, g[2]) = p})

\* pd.pivot_table(rows, index="unique_id", columns="date", values="y",
\*                aggfunc="sum").resample(frequency, axis=1).sum()
PivotResample(f, rows, categories, categorical) ==
  IF rows = <<>> THEN <<>>
  ELSE LET idx == PivotIndex(rows, categories, categorical)
           cells == PivotCells(rows, categories, categorical)
           labels == PeriodRange(f, PeriodLabel(f, MinDate(rows)),
                                 PeriodLabel(f, MaxDate(rows)))
       IN [k \in DOMAIN labels |->
             [period |-> labels[k],
              cells |-> [u \in idx |-> ResampleCell(f, cells, u, labels[k])]]]

\* whether the pivot of a selection goes through.  Of a selection without rows
\* pivot_table(...).resample(...) returns a frame without columns or raises, depending
\* on the pandas release; of a selection with rows it goes through
PivotOutcomes(rows) == IF rows = <<>> THEN BOOLEAN ELSE {TRUE}

\* pd.concat([out_df, temp_df], axis=1): the columns of both, in order, duplicates kept
Concat(a, b) == a \o b

\* ---- the window arithmetic ----
\* temp_date = start_date + chunk_period
WindowEnd(start, size) == AddDays(start, size)

\* a slip: the next window starts two days before the end of this one
NextStart_Overlap(temp, size) == AddDays(temp, 0 - 2)

\* a slip: the next window starts where this one started
NextStart_Stuck(temp, size) == AddDays(temp, 0 - size)

\* start_date = temp_date - datetime.timedelta(days=1)
NextStart(temp, size) == AddDays(temp, 0 - 1)

\* while start_date + chunk_period < df["date"].max()
LoopGuard(start, size, rows) == DateLt(AddDays(start, size), MaxDate(rows))

\* a slip: the save ignores temporary_save
Checkpoint_Always(save, n) == n + 1

\* if temporary_save: out_df.to_csv(write_filepath)
Checkpoint(save, n) == IF save THEN n + 1 ELSE n

\* a slip: the exception of to_csv is swallowed
AfterWrite_Swallow(ok) == "loop"

\* whether out_df.to_csv goes through: it is called with temporary_save only, and
\* writes the file or raises
WriteOutcomes(save) == IF save THEN BOOLEAN ELSE {TRUE}

\* where control goes after the save step: an exception of to_csv propagates
AfterWrite(ok) == IF ok THEN "loop" ELSE "error"

\* ---- the inputs ----
IdRank(u) == IF u = "a" THEN 0 ELSE 1

RowLeq(r, s) ==
  \/ r.date < s.date
  \/ r.date = s.date /\ IdRank(r.unique_id) < IdRank(s.unique_id)
  \/ r.date = s.date /\ r.unique_id = s.unique_id /\ r.y <= s.y

GridSpan(f) == IF f = "M" THEN ChunkM ELSE ChunkW

\* the dates an input row may bear.  With the min date on day 0 the first window
\* selects the days 1 .. chunk - 1 and the second the days chunk .. 2 * chunk - 2, and
\* the loop runs once the max date is 2 * chunk or later: the days are the last and
\* the first day of the windows, and the days from 2 * chunk on
Days(f) ==
  {d \in 0..(2 * GridSpan(f) + Slack) :
     d % (GridSpan(f) - 1) <= 1 \/ d >= 2 * GridSpan(f)}

Rows(f) == [unique_id : Ids, date : Days(f), y : Ys]

\* the files of at most n rows, rows in date order
RECURSIVE Files(_, _)
Files(f, n) ==
  IF n = 0 THEN {<<>>}
  ELSE LET S == Files(f, n - 1)
       IN S \cup {Append(s, r) : <<s, r>> \in
                    {p \in S \X Rows(f) :
                       /\ Len(p[1]) = n - 1
                       /\ (n = 1 \/ RowLeq(p[1][n - 1], p[2]))}}

\* the state at line 106: the arguments, and the file of at most n rows read into df
InitWith(n) ==
  /\ pc = "start"
  /\ frequency \in Frequencies
  /\ temporary_save \in BOOLEAN
  /\ item_category \in BOOLEAN
  /\ df \in Files(frequency, n)
  /\ chunk_size = 0
  /\ start_date = NaT
  /\ temp_date = NaT
  /\ out_df = <<>>
  /\ file = <<>>
  /\ writes = 0
  /\ raised = "none"
  /\ filters = <<>>

Init == InitWith(MaxRows)

\* lines 106-114: the chunk size of the frequency, or ValueError
SetChunkSize ==
  /\ pc = "start"
  /\ chunk_size' = ChunkSizeOf(frequency)
  /\ pc' = IF ChunkSizeOf(frequency) = 0 THEN "error" ELSE "first"
  /\ raised' = IF ChunkSizeOf(frequency) = 0 THEN "frequency" ELSE "none"
  /\ UNCHANGED <<frequency, temporary_save, item_category, df, start_date,
                 temp_date, out_df, file, writes, filters>>

\* lines 116-135: the first chunk
FirstChunk ==
  /\ pc = "first"
  /\ LET start == MinDate(df)
         temp == WindowEnd(start, chunk_size)
         rows == FilterRows(df, start, temp)
     IN \E pivot_ok \in PivotOutcomes(rows) :
          /\ temp_date' = temp
          /\ start_date' = NextStart(temp, chunk_size)
          /\ filters' = Append(filters, [start |-> start, end |-> temp])
          /\ out_df' = IF pivot_ok
                       THEN PivotResample(frequency, rows, RowIds(df), item_category)
                       ELSE out_df
          /\ pc' = IF pivot_ok THEN "loop" ELSE "error"
          /\ raised' = IF pivot_ok THEN "none" ELSE "pivot"
  /\ UNCHANGED <<frequency, temporary_save, item_category, df, chunk_size,
                 file, writes>>

\* lines 137-162: one iteration of the while loop
NextChunk ==
  /\ pc = "loop"
  /\ LoopGuard(start_date, chunk_size, df)
  /\ LET temp == WindowEnd(start_date, chunk_size)
         rows == FilterRows(df, start_date, temp)
         temp_df == PivotResample(frequency, rows, RowIds(df), item_category)
     IN \E pivot_ok \in PivotOutcomes(rows), write_ok \in WriteOutcomes(temporary_save) :
          /\ temp_date' = temp
          /\ start_date' = NextStart(temp, chunk_size)
          /\ filters' = Append(filters, [start |-> start_date, end |-> temp])
          /\ out_df' = IF pivot_ok THEN Concat(out_df, temp_df) ELSE out_df
          /\ writes' = IF pivot_ok /\ write_ok
                       THEN Checkpoint(temporary_save, writes) ELSE writes
          /\ file' = IF pivot_ok /\ write_ok /\ Checkpoint(temporary_save, writes) > writes
                     THEN <<Concat(out_df, temp_df)>> ELSE file
          /\ pc' = IF pivot_ok THEN AfterWrite(write_ok) ELSE "error"
          /\ raised' = IF ~pivot_ok THEN "pivot"
                       ELSE IF ~write_ok THEN "to_csv" ELSE "none"
  /\ UNCHANGED <<frequency, temporary_save, item_category, df, chunk_size>>

\* lines 137 and 165: the loop condition fails, out_df is returned
Return ==
  /\ pc = "loop"
  /\ ~LoopGuard(start_date, chunk_size, df)
  /\ pc' = "done"
  /\ UNCHANGED <<frequency, temporary_save, item_category, df, chunk_size,
                 start_date, temp_date, out_df, file, writes, raised, filters>>

Next == SetChunkSize \/ FirstChunk \/ NextChunk \/ Return

Spec == Init /\ [][Next]_vars

\* the interpreter runs the function to its end; the runs checked for termination
\* start from the files of at most LiveRows rows
LiveInit == InitWith(LiveRows)

FairSpec == LiveInit /\ [][Next]_vars /\ WF_vars(Next)


\* ---- what the claims speak of ----
Supported == frequency \in {"W", "M"}

\* row i of df passes the date filter of window k
Sel(i, k) == Selected(df[i], filters[k].start, filters[k].end)

\* the rows of df that window k selected
WindowRows(k) == FilterRows(df, filters[k].start, filters[k].end)

RECURSIVE ColumnSum(_, _)
ColumnSum(cells, ids) ==
  IF ids = {} THEN 0
  ELSE LET u == CHOOSE x \in ids : TRUE
       IN cells[u] + ColumnSum(cells, ids \ {u})

RECURSIVE MatrixSum(_, _)
MatrixSum(m, c) ==
  IF c > Len(m) THEN 0
  ELSE ColumnSum(m[c].cells, DOMAIN m[c].cells) + MatrixSum(m, c + 1)

\* the sum of y over the rows of one id dated in one period
ActivitySum(rows, u, p) ==
  SumY(SelectSeq(rows, LAMBDA r : r.unique_id = u /\ PeriodLabel(frequency, r.date) = p), 1)

\* C1: the cells of the returned matrix sum to the sum of y over all input records
C1_Conservation ==
  pc = "done" => MatrixSum(out_df, 1) = SumY(df, 1)

\* C2: every calendar date from the min date to the max date passes the filter
\* start < d < end of at least one processed window
C2_WindowCoverage ==
  (pc = "done" /\ df # <<>>) =>
    \A d \in MinDate(df)..MaxDate(df) :
      \E k \in DOMAIN filters : DateLt(filters[k].start, d) /\ DateLt(d, filters[k].end)

\* C3: when the loop has stopped, every record dated after the last processed window's
\* start, up to and including the max date, was selected by a window
C3_FinalPartialWindow ==
  (pc = "done" /\ df # <<>>) =>
    \A i \in DOMAIN df :
      df[i].date > filters[Len(filters)].start => \E k \in DOMAIN filters : Sel(i, k)

\* C4: the period columns of the running matrix are strictly increasing after the
\* first window and after every concat
C4_ColumnsStrictlyIncreasing ==
  \A c \in 1..(Len(out_df) - 1) : out_df[c].period < out_df[c + 1].period

\* C5: with a frequency other than W and M the call fails before any window is
\* filtered or aggregated, writes no checkpoint and returns no matrix
C5_UnsupportedRejected ==
  ~Supported =>
    /\ pc \in {"start", "error"}
    /\ filters = <<>>
    /\ out_df = <<>>
    /\ writes = 0
    /\ file = <<>>
    /\ pc = "error" <=> raised = "frequency"

C5_Witness ==
  frequency = "D" /\ pc = "error" /\ raised = "frequency" /\ chunk_size = 0 /\ df # <<>>

C9_BoundaryCountedOnceOnTheLeft ==
  \A j, k \in DOMAIN filters :
    j < k =>
      /\ \A i \in DOMAIN df : ~(Sel(i, j) /\ Sel(i, k))
      /\ k = j + 1 =>
           /\ filters[k].start = filters[j].end - 1
           /\ \A i \in DOMAIN df :
                df[i].date = filters[k].start => (Sel(i, j) /\ ~Sel(i, k))

C9_Witness ==
  /\ pc = "done"
  /\ Len(filters) = 2
  /\ \E i \in DOMAIN df : df[i].date = filters[2].start /\ Sel(i, 1)

=============================================================================
